---- MODULE Spec2Model ----
(***************************************************************************)
(* kpass (src/src/main.rs): a KeePass vault accessor with a quick-unlock   *)
(* cache (/tmp/.kpw), an entry tree and a three-step save.                 *)
(*                                                                         *)
(* A str is a sequence of Unicode scalar values; its bytes are its UTF-8   *)
(* encoding.  A file is a record: absent, a cocoon blob, a kdbx container  *)
(* or a partially written file.  The codecs (cocoon, kdbx) are ideal: a    *)
(* blob opens under the key it was written with and under no other.        *)
(*                                                                         *)
(* Fault model: a write to the file system (File::create, a dump or save   *)
(* into a created file, std::fs::copy) may fail; reading or removing a     *)
(* file that exists succeeds, and the vault file named on the command line *)
(* exists.  A prompt may be interrupted by the user, which ends the        *)
(* process through the `?` on prompt().                                    *)
(***************************************************************************)
EXTENDS Integers, Sequences, FiniteSets, TLC

\* ---------------------------------------------------------------- bounds
MaxPassLen == 4
MaxOps == 1
MaxDepth == 2

\* ------------------------------------------------------------- constants
QUICK_LEN == 3
PW_CACHE == "/tmp/.kpw"
TEMP_PATH == "/tmp/.pass.kdbx"

\* Scalar values a passphrase is typed from: 'a' (1 byte in UTF-8) and
\* e-acute (2 bytes).
Alphabet == {97, 233}
\* The same with mu (2 bytes), for last_n_chars on its own.
DeriveAlphabet == {97, 233, 956}

RECURSIVE StrOfLen(_, _)
StrOfLen(alphabet, n) ==
    IF n = 0 THEN {<<>>}
    ELSE {Append(s, c) : s \in StrOfLen(alphabet, n - 1), c \in alphabet}

\* Every str of at most n scalar values.
StrUpTo(alphabet, n) == UNION {StrOfLen(alphabet, k) : k \in 0..n}

\* What may be typed at a passphrase or quick pass prompt.
Strs == StrUpTo(Alphabet, MaxPassLen)

\* ------------------------------------------------------------------ UTF-8
\* The UTF-8 encoding of one scalar value below U+0800.
Utf8Char(c) ==
    IF c < 128 THEN <<c>> ELSE <<192 + (c \div 64), 128 + (c % 64)>>

RECURSIVE as_bytes(_)
\* str::as_bytes: the UTF-8 bytes of a str.
as_bytes(s) ==
    IF s = <<>> THEN <<>> ELSE Utf8Char(Head(s)) \o as_bytes(Tail(s))

Invalid == <<-1>>

RECURSIVE from_utf8(_)
\* std::str::from_utf8: the str of a byte sequence, or Invalid.
from_utf8(b) ==
    IF b = <<>> THEN <<>>
    ELSE IF b[1] < 128
         THEN LET r == from_utf8(Tail(b))
              IN  IF r = Invalid THEN Invalid ELSE <<b[1]>> \o r
    ELSE IF b[1] >= 194 /\ b[1] < 224 /\ Len(b) >= 2 /\ b[2] >= 128 /\ b[2] < 192
         THEN LET r == from_utf8(Tail(Tail(b)))
              IN  IF r = Invalid THEN Invalid
                  ELSE <<(b[1] - 192) * 64 + (b[2] - 128)>> \o r
    ELSE Invalid

RECURSIVE char_indices(_, _)
\* str::char_indices: the byte offset (from `at`) of every scalar value of s.
char_indices(s, at) ==
    IF s = <<>> THEN <<>>
    ELSE <<at>> \o char_indices(Tail(s), at + Len(Utf8Char(Head(s))))

None == [some |-> FALSE]
Some(v) == [some |-> TRUE, val |-> v]

\* Iterator::nth_back(k): the (k+1)-th element from the end, or None.
nth_back(seq, k) ==
    IF k < Len(seq) THEN Some(seq[Len(seq) - k]) ELSE None

\* A plausible slip: the last n bytes instead of the last n chars.
last_n_bytes(s, n) ==
    LET b == as_bytes(s)
    IN  IF Len(b) < n THEN None
        ELSE Some(from_utf8(SubSeq(b, Len(b) - n + 1, Len(b))))

\* last_n_chars(s, n): `&s[idx..]` for idx the byte offset of the n-th char
\* from the end; None stands for the panic of unwrap() on a shorter str.
last_n_chars(s, n) ==
    LET idx == nth_back(char_indices(s, 0), n - 1)
        b == as_bytes(s)
    IN  IF ~idx.some THEN None
        ELSE Some(from_utf8(SubSeq(b, idx.val + 1, Len(b))))

\* ------------------------------------------------------------- entry tree
FieldNames == {"Title", "UserName", "Password", "Notes", "URL", "Extra"}

\* keepass::db::Value; NoValue stands for a key the field map does not hold.
NoValue == [tag |-> "None", v |-> ""]
Unprotected(t) == [tag |-> "Unprotected", v |-> t]
Protected(t) == [tag |-> "Protected", v |-> t]

NoFields == [f \in FieldNames |-> NoValue]

\* Node::Entry and Node::Group, as records of one shape.
MkEntry(u, f) == [kind |-> "Entry", uuid |-> u, fields |-> f, children |-> <<>>]
MkGroup(c) == [kind |-> "Group", uuid |-> 0, fields |-> NoFields, children |-> c]

\* Entry::get: the text of a field, Protected or not, or None.
get(entry, name) ==
    IF entry.fields[name].tag = "None" THEN None ELSE Some(entry.fields[name].v)

password(entry) == get(entry, "Password")
username(entry) == get(entry, "UserName")
url(entry) == get(entry, "URL")
title(entry) == get(entry, "Title")

\* Entry::notes: the Notes field, Unprotected or Protected, as text.
notes(entry) ==
    LET val == entry.fields["Notes"]
    IN  IF val.tag = "Unprotected" THEN Some(val.v)
        ELSE IF val.tag = "Protected" THEN Some(val.v)
        ELSE None

\* fields.insert(name, value)
insert(entry, name, value) ==
    [entry EXCEPT !.fields = [@ EXCEPT ![name] = value]]

RECURSIVE list_entries_depth_first(_)
\* A plausible slip: the entries depth first, a group's entries before its
\* later siblings.
list_entries_depth_first(group) ==
    LET RECURSIVE walk(_)
        walk(ch) ==
            IF ch = <<>> THEN <<>>
            ELSE (IF Head(ch).kind = "Group"
                  THEN list_entries_depth_first(Head(ch))
                  ELSE <<Head(ch)>>) \o walk(Tail(ch))
    IN  walk(group.children)

RECURSIVE NodeIter(_)
\* keepass NodeIter, behind `db.root.into_iter()`: next() pops the head of
\* the queue and, when it is a group, pushes its children at the back.
NodeIter(queue) ==
    IF queue = <<>> THEN <<>>
    ELSE LET head == Head(queue)
         IN  <<head>> \o NodeIter(Tail(queue) \o (IF head.kind = "Group"
                                                  THEN head.children
                                                  ELSE <<>>))

\* pick_entry's candidates: the nodes NodeIter yields from the root, groups
\* filtered out.
list_entries(group) ==
    SelectSeq(NodeIter(<<group>>), LAMBDA node : node.kind = "Entry")

Min(S) == CHOOSE i \in S : \A j \in S : i <= j

RECURSIVE find_shallow(_, _)
\* A plausible slip: the entries of a group are compared before any of its
\* groups is descended into.
find_shallow(group, uuid) ==
    LET n == Len(group.children)
        direct == {i \in 1..n : /\ group.children[i].kind = "Entry"
                                /\ group.children[i].uuid = uuid}
        deep == {i \in 1..n : /\ group.children[i].kind = "Group"
                              /\ find_shallow(group.children[i], uuid).some}
    IN  IF direct # {} THEN Some(<<Min(direct)>>)
        ELSE IF deep # {}
             THEN Some(<<Min(deep)>>
                       \o find_shallow(group.children[Min(deep)], uuid).val)
        ELSE None

RECURSIVE find_from(_, _, _)
RECURSIVE _find_entry_mut(_, _)
\* The loop of _find_entry_mut from child i on: the path (child indices)
\* of the first match, or None.
find_from(group, uuid, i) ==
    IF i > Len(group.children) THEN None
    ELSE LET ch == group.children[i]
         IN  IF ch.kind = "Group"
             THEN LET r == _find_entry_mut(ch, uuid)
                  IN  IF r.some THEN Some(<<i>> \o r.val)
                      ELSE find_from(group, uuid, i + 1)
             ELSE IF ch.uuid = uuid THEN Some(<<i>>)
             ELSE find_from(group, uuid, i + 1)

_find_entry_mut(group, uuid) == find_from(group, uuid, 1)

\* A plausible slip: only the children of the root are compared.
get_entry_mut_flat(root, uuid) ==
    LET direct == {i \in 1..Len(root.children) :
                     /\ root.children[i].kind = "Entry"
                     /\ root.children[i].uuid = uuid}
    IN  IF direct # {} THEN Some(<<Min(direct)>>) ELSE None

get_entry_mut(root, uuid) == _find_entry_mut(root, uuid)

RECURSIVE NodeAt(_, _)
\* The node a path (a `&mut KEntry`) refers to.
NodeAt(node, path) ==
    IF path = <<>> THEN node ELSE NodeAt(node.children[Head(path)], Tail(path))

RECURSIVE SetAt(_, _, _)
\* The tree with the node at `path` replaced: a write through `&mut KEntry`.
SetAt(node, path, new) ==
    IF path = <<>> THEN new
    ELSE [node EXCEPT !.children[Head(path)] = SetAt(@, Tail(path), new)]

\* Group::add_child: appended to the group's children.
add_child(group, entry) ==
    [group EXCEPT !.children = Append(@, entry)]

\* ------------------------------------------------------------------ files
DbPaths == {"/v1/db.kdbx", "/v2/db.kdbx"}

\* Path::with_file_name(".backup.kdbx"): the sibling of the vault file.
with_file_name(path) ==
    IF path = "/v1/db.kdbx" THEN "/v1/.backup.kdbx" ELSE "/v2/.backup.kdbx"

Paths == {PW_CACHE, TEMP_PATH} \cup DbPaths \cup {with_file_name(p) : p \in DbPaths}

EmptyRoot == MkGroup(<<>>)

\* A file's content, as records of one shape.
Absent == [kind |-> "absent", key |-> <<>>, blob |-> <<>>, db |-> EmptyRoot]
\* A file created (truncated) and not, or not completely, written.
Partial == [kind |-> "partial", key |-> <<>>, blob |-> <<>>, db |-> EmptyRoot]
\* Cocoon::dump(data) under Cocoon::new(key).
CocoonBlob(k, data) == [kind |-> "cocoon", key |-> k, blob |-> data, db |-> EmptyRoot]
\* Database::save(db) under DatabaseKey::with_password(k).
Kdbx(k, root) == [kind |-> "kdbx", key |-> k, blob |-> <<>>, db |-> root]

\* Cocoon::parse: the payload if the file is a blob written under this key.
CocoonParse(file, k) ==
    IF file.kind = "cocoon" /\ file.key = k THEN Some(file.blob) ELSE None

\* Database::open: the tree if the file is a container written under this key.
DatabaseOpen(file, k) ==
    IF file.kind = "kdbx" /\ file.key = k THEN Some(file.db) ELSE None

\* -------------------------------------------------------- initial vaults
E1 == MkEntry(1, [NoFields EXCEPT !["Title"] = Unprotected("t1"),
                                  !["UserName"] = Unprotected("u1"),
                                  !["Password"] = Protected("p1"),
                                  !["Notes"] = Unprotected("s1")])
E2 == MkEntry(2, [NoFields EXCEPT !["Title"] = Unprotected("t2"),
                                  !["Password"] = Protected("p2"),
                                  !["Notes"] = Protected("s2"),
                                  !["URL"] = Unprotected("w2")])
E3 == MkEntry(3, [NoFields EXCEPT !["Title"] = Unprotected("t3"),
                                  !["UserName"] = Unprotected("u3"),
                                  !["Extra"] = Unprotected("x3")])
E4 == MkEntry(4, [NoFields EXCEPT !["Title"] = Unprotected("t4"),
                                  !["Password"] = Protected("p4")])

\* G1{e1, G2{e2}}, e3
Root1 == MkGroup(<<MkGroup(<<E1, MkGroup(<<E2>>)>>), E3>>)
Root2 == MkGroup(<<E4>>)

InitialRoot(path) == IF path = "/v1/db.kdbx" THEN Root1 ELSE Root2

\* The master passphrases the first vault may have: any str, shorter than
\* the quick pass, as long as it, or longer.
VaultKeys1 == Strs
\* The master passphrase of the second vault: the first vault may have the
\* same, another that ends in the same three chars, or one that does not.
VaultKeys2 == {<<233, 97, 233, 97>>}

\* uuids KEntry::new() may draw (Uuid::new_v4).
NewUuids == {11, 12}

\* Text a prompt may return besides the field's current value.
TypedTexts == {"n"}
\* What PasswordGenerator::generate_one may return.
Generated == {"g"}

\* ------------------------------------------------------------------ state
VARIABLES
    fs,         \* the file system: path -> content
    pc,         \* where the process is; "off" when none runs
    status,     \* how the last process ended; "none" while one runs
    db_path,    \* args[0]
    pass,       \* the passphrase recovered from the cache or typed
    key,        \* the DatabaseKey the vault opened under
    db,         \* the Database in memory (its root group)
    sel,        \* the `&mut KEntry` of the Edit action, as a path
    entries,    \* the Vec the last step's pick_entry collected
    stdout,     \* what the last step wrote to standard output
    clipboard,  \* what the last step copied to the clipboard
    ops,        \* mutations of the tree so far
    used        \* history: the cache record on disk has unlocked a launch

mem == <<db_path, pass, key, db, sel>>
vars == <<fs, pc, status, db_path, pass, key, db, sel, entries, stdout, clipboard,
          ops, used>>

NoText == "-"

\* A line of standard output: the text and, for a printed field, where it
\* came from.
Line(text) == [line |-> text, field |-> "", tag |-> "", val |-> ""]
FieldLine(text, name, value) ==
    [line |-> text, field |-> name, tag |-> value.tag, val |-> value.v]

\* No process runs yet; the vaults are as created under the passphrases k1
\* and k2 and nothing else is on disk.
InitWith(keys1, keys2) ==
    /\ \E k1 \in keys1, k2 \in keys2 :
          fs = [p \in Paths |->
                  IF p = "/v1/db.kdbx" THEN Kdbx(k1, Root1)
                  ELSE IF p = "/v2/db.kdbx" THEN Kdbx(k2, Root2)
                  ELSE Absent]
    /\ pc = "off"
    /\ status = "none"
    /\ db_path = "/v1/db.kdbx"
    /\ pass = <<>>
    /\ key = <<>>
    /\ db = EmptyRoot
    /\ sel = <<>>
    /\ entries = <<>>
    /\ stdout = {}
    /\ clipboard = NoText
    /\ ops = 0
    /\ used = FALSE

\* The process ends: its memory is gone, the files stay.
Exit(how) ==
    /\ pc' = "off"
    /\ status' = how
    /\ pass' = <<>>
    /\ key' = <<>>
    /\ db' = EmptyRoot
    /\ sel' = <<>>
    /\ UNCHANGED db_path

\* ------------------------------------------------------------------ main
\* main, lines 173-179: a launch on a vault path.
Launch(path) ==
    /\ pc = "off"
    /\ pc' = "try_load"
    /\ status' = "none"
    /\ db_path' = path
    /\ stdout' = {}
    /\ clipboard' = NoText
    /\ entries' = <<>>
    /\ UNCHANGED used
    /\ UNCHANGED <<fs, pass, key, db, sel, ops>>

\* A plausible slip: the cache file is opened without the exists() check,
\* and File::open(..)? ends the launch when there is none.
TryLoadNoCache_open ==
    /\ pc = "try_load"
    /\ fs[PW_CACHE].kind = "absent"
    /\ Exit("err_open")
    /\ stdout' = {}
    /\ clipboard' = NoText
    /\ entries' = <<>>
    /\ UNCHANGED <<fs, ops, used>>

\* try_load_pass, line 137 (else branch): no cache file, Ok(None).
TryLoadNoCache ==
    /\ pc = "try_load"
    /\ fs[PW_CACHE].kind = "absent"
    /\ pc' = "prompt_pass"
    /\ stdout' = {}
    /\ clipboard' = NoText
    /\ entries' = <<>>
    /\ UNCHANGED used
    /\ UNCHANGED <<fs, status, mem, ops>>

\* A plausible slip: the cache file is not removed after a wrong quick pass.
try_load_pass_keep(typed) ==
    /\ pc = "try_load"
    /\ fs[PW_CACHE].kind # "absent"
    /\ LET r == CocoonParse(fs[PW_CACHE], as_bytes(typed))
       IN  IF r.some /\ from_utf8(r.val) # Invalid
           THEN /\ pass' = from_utf8(r.val)
                /\ pc' = "open_cached"
                /\ stdout' = {}
           ELSE /\ stdout' = {Line("! Quick Pass was incorrect.")}
                /\ pc' = "prompt_pass"
                /\ UNCHANGED pass
    /\ clipboard' = NoText
    /\ entries' = <<>>
    /\ UNCHANGED used
    /\ UNCHANGED <<fs, status, db_path, key, db, sel, ops>>

\* A plausible slip: a wrong quick pass is asked for again.
try_load_pass_retry(typed) ==
    /\ pc = "try_load"
    /\ fs[PW_CACHE].kind # "absent"
    /\ LET r == CocoonParse(fs[PW_CACHE], as_bytes(typed))
       IN  IF r.some /\ from_utf8(r.val) # Invalid
           THEN /\ pass' = from_utf8(r.val)
                /\ pc' = "open_cached"
                /\ stdout' = {}
           ELSE /\ stdout' = {Line("! Quick Pass was incorrect.")}
                /\ pc' = "try_load"
                /\ UNCHANGED pass
    /\ clipboard' = NoText
    /\ entries' = <<>>
    /\ UNCHANGED used
    /\ UNCHANGED <<fs, status, db_path, key, db, sel, ops>>

\* try_load_pass, lines 137-154: the cache file exists and is opened, the
\* quick pass is prompted for once and the cache parsed under it.
try_load_pass(typed) ==
    /\ pc = "try_load"
    /\ fs[PW_CACHE].kind # "absent"
    /\ LET r == CocoonParse(fs[PW_CACHE], as_bytes(typed))
       IN  IF r.some
           THEN IF from_utf8(r.val) = Invalid
                THEN /\ Exit("err_utf8")
                     /\ stdout' = {}
                     /\ UNCHANGED <<fs, used>>
                ELSE /\ pass' = from_utf8(r.val)
                     /\ pc' = "open_cached"
                     /\ stdout' = {}
                     /\ UNCHANGED <<fs, status, db_path, key, db, sel, used>>
           ELSE /\ stdout' = {Line("! Quick Pass was incorrect.")}
                /\ fs' = [fs EXCEPT ![PW_CACHE] = Absent]
                /\ pc' = "prompt_pass"
                /\ used' = FALSE
                /\ UNCHANGED <<status, mem>>
    /\ clipboard' = NoText
    /\ entries' = <<>>
    /\ UNCHANGED ops

\* A plausible slip: a cached passphrase that does not open the vault falls
\* back to the passphrase prompt.
OpenCached_fallback ==
    /\ pc = "open_cached"
    /\ LET r == DatabaseOpen(fs[db_path], pass)
       IN  IF r.some
           THEN /\ db' = r.val
                /\ key' = pass
                /\ pass' = <<>>
                /\ pc' = "menu"
           ELSE /\ pc' = "prompt_pass"
                /\ pass' = <<>>
                /\ UNCHANGED <<db, key>>
    /\ stdout' = {}
    /\ clipboard' = NoText
    /\ entries' = <<>>
    /\ UNCHANGED used
    /\ UNCHANGED <<fs, status, db_path, sel, ops>>

\* A plausible slip: a cached passphrase that does not open the vault is
\* forgotten before the panic.
OpenCached_forget ==
    /\ pc = "open_cached"
    /\ LET r == DatabaseOpen(fs[db_path], pass)
       IN  IF r.some
           THEN /\ db' = r.val
                /\ key' = pass
                /\ pass' = <<>>
                /\ pc' = "menu"
                /\ used' = TRUE
                /\ UNCHANGED <<fs, status, db_path, sel>>
           ELSE /\ Exit("panic_expect")
                /\ fs' = [fs EXCEPT ![PW_CACHE] = Absent]
                /\ used' = FALSE
    /\ stdout' = {}
    /\ clipboard' = NoText
    /\ entries' = <<>>
    /\ UNCHANGED ops

\* A plausible slip: the cache record is consumed by the launch it unlocks.
OpenCached_consume ==
    /\ pc = "open_cached"
    /\ LET r == DatabaseOpen(fs[db_path], pass)
       IN  IF r.some
           THEN /\ db' = r.val
                /\ key' = pass
                /\ pass' = <<>>
                /\ pc' = "menu"
                /\ fs' = [fs EXCEPT ![PW_CACHE] = Absent]
                /\ used' = FALSE
                /\ UNCHANGED <<status, db_path, sel>>
           ELSE Exit("panic_expect") /\ UNCHANGED <<fs, used>>
    /\ stdout' = {}
    /\ clipboard' = NoText
    /\ entries' = <<>>
    /\ UNCHANGED ops

\* main, lines 181-185: open the vault under the cached passphrase;
\* expect() panics when it does not open.
OpenCached ==
    /\ pc = "open_cached"
    /\ LET r == DatabaseOpen(fs[db_path], pass)
       IN  IF r.some
           THEN /\ db' = r.val
                /\ key' = pass
                /\ pass' = <<>>
                /\ pc' = "menu"
                /\ used' = TRUE
                /\ UNCHANGED <<status, db_path, sel>>
           ELSE Exit("panic_expect") /\ UNCHANGED used
    /\ stdout' = {}
    /\ clipboard' = NoText
    /\ entries' = <<>>
    /\ UNCHANGED <<fs, ops>>

\* main, lines 188-206: the passphrase is prompted for and the vault opened
\* under it; a passphrase that does not open it is reported and the loop
\* prompts again.
PromptPass(typed) ==
    /\ pc = "prompt_pass"
    /\ LET r == DatabaseOpen(fs[db_path], typed)
       IN  IF r.some
           THEN /\ pass' = typed
                /\ db' = r.val
                /\ key' = typed
                /\ pc' = "cache_pass"
                /\ stdout' = {}
           ELSE /\ stdout' =
                      {Line("! Failed to open database. Wrong password?"),
                       Line(">   {:?}")}
                /\ pc' = "prompt_pass"
                /\ UNCHANGED <<pass, db, key>>
    /\ clipboard' = NoText
    /\ entries' = <<>>
    /\ UNCHANGED used
    /\ UNCHANGED <<fs, status, db_path, sel, ops>>

\* A prompt is interrupted: prompt()? returns the error and main ends.
Interrupt ==
    /\ \/ pc \in {"prompt_pass", "menu", "edit"}
       \/ pc = "try_load" /\ fs[PW_CACHE].kind # "absent"
    /\ Exit("err_prompt")
    /\ stdout' = {}
    /\ clipboard' = NoText
    /\ entries' = <<>>
    /\ UNCHANGED used
    /\ UNCHANGED <<fs, ops>>

\* ------------------------------------------------------------ file system
\* std::fs::copy(from, to): `to` holds the bytes of `from`.
copy(files, from, to) == [files EXCEPT ![to] = files[from]]

\* std::fs::copy failing: `to` is as it was (nothing was opened) or holds
\* part of the bytes (it was truncated and the write stopped).
copy_failed(files, to) == {files, [files EXCEPT ![to] = Partial]}

\* File::create(path): the file exists and is empty.
create(files, path) == [files EXCEPT ![path] = Partial]

\* ------------------------------------------------------------ cache_pass
\* A plausible slip: the payload locked by the first chars of the password.
cache_blob_first(pwd) ==
    CocoonBlob(as_bytes(SubSeq(pwd, 1, QUICK_LEN)), as_bytes(pwd))

\* cache_pass, lines 163-167: the blob dump() writes.
cache_blob(pwd) ==
    CocoonBlob(as_bytes(last_n_chars(pwd, QUICK_LEN).val), as_bytes(pwd))

\* cache_pass: every way it may end, with the files it leaves.  unwrap()
\* panics on a short password before the file is touched; File::create may
\* fail; dump may fail after the file was created, and unwrap() panics.
cache_pass(files, pwd) ==
    IF ~last_n_chars(pwd, QUICK_LEN).some
    THEN {[fs |-> files, res |-> "panic_unwrap"]}
    ELSE {[fs |-> files, res |-> "err_cache_create"],
          [fs |-> create(files, PW_CACHE), res |-> "panic_dump"],
          [fs |-> [files EXCEPT ![PW_CACHE] = cache_blob(pwd)], res |-> "ok"]}

\* main, lines 199-200: the accepted passphrase is cached and the menu
\* loop entered.
CachePass ==
    /\ pc = "cache_pass"
    /\ \E out \in cache_pass(fs, pass) :
          /\ fs' = out.fs
          /\ used' = IF out.res \in {"ok", "panic_dump"} THEN FALSE ELSE used
          /\ IF out.res = "ok"
             THEN /\ pc' = "menu"
                  /\ pass' = <<>>
                  /\ UNCHANGED <<status, db_path, key, db, sel>>
             ELSE Exit(out.res)
    /\ stdout' = {}
    /\ clipboard' = NoText
    /\ entries' = <<>>
    /\ UNCHANGED ops

\* --------------------------------------------------------------- save_db
\* Database::save into the created file.
save(files, path, k, root) == [files EXCEPT ![path] = Kdbx(k, root)]

\* A plausible slip: the vault is serialized straight into the vault file.
save_db_inplace(files, root, k, path) ==
    LET f1 == copy(files, path, with_file_name(path))
        f2 == create(f1, path)
        f3 == save(f2, path, k, root)
    IN  {[fs |-> f, res |-> "err_backup"] :
            f \in copy_failed(files, with_file_name(path))}
        \cup {[fs |-> f1, res |-> "err_create"]}
        \cup {[fs |-> f2, res |-> "err_save"]}
        \cup {[fs |-> f3, res |-> "ok"]}

\* A plausible slip: the staging file is written and never copied over the
\* vault file.
save_db_unpublished(files, root, k, path) ==
    LET f1 == copy(files, path, with_file_name(path))
        f2 == create(f1, TEMP_PATH)
        f3 == save(f2, TEMP_PATH, k, root)
    IN  {[fs |-> f, res |-> "err_backup"] :
            f \in copy_failed(files, with_file_name(path))}
        \cup {[fs |-> f1, res |-> "err_create"]}
        \cup {[fs |-> f2, res |-> "err_save"]}
        \cup {[fs |-> f3, res |-> "ok"]}

\* A plausible slip: the vault is staged before the backup is taken.
save_db_stage_first(files, root, k, path) ==
    LET f1 == create(files, TEMP_PATH)
        f2 == save(f1, TEMP_PATH, k, root)
        f3 == copy(f2, path, with_file_name(path))
        f4 == copy(f3, TEMP_PATH, path)
    IN  {[fs |-> files, res |-> "err_create"]}
        \cup {[fs |-> f1, res |-> "err_save"]}
        \cup {[fs |-> f, res |-> "err_backup"] :
                f \in copy_failed(f2, with_file_name(path))}
        \cup {[fs |-> f, res |-> "err_publish"] : f \in copy_failed(f3, path)}
        \cup {[fs |-> f4, res |-> "ok"]}

\* save_db: every way it may end, with the files it leaves: the backup
\* copy, the staging file created, the vault serialized into it, the
\* staging file copied over the vault file; each may fail.
save_db(files, root, k, path) ==
    LET f1 == copy(files, path, with_file_name(path))
        f2 == create(f1, TEMP_PATH)
        f3 == save(f2, TEMP_PATH, k, root)
        f4 == copy(f3, TEMP_PATH, path)
    IN  {[fs |-> f, res |-> "err_backup"] :
            f \in copy_failed(files, with_file_name(path))}
        \cup {[fs |-> f1, res |-> "err_create"]}
        \cup {[fs |-> f2, res |-> "err_save"]}
        \cup {[fs |-> f, res |-> "err_publish"] : f \in copy_failed(f3, path)}
        \cup {[fs |-> f4, res |-> "ok"]}

\* ------------------------------------------------------------ view_entry
\* A plausible slip: the password is printed like the other fields.
view_entry_password(entry) ==
    (IF get(entry, "UserName").some
     THEN {FieldLine("> Username: {}", "UserName", entry.fields["UserName"])}
     ELSE {})
    \cup (IF get(entry, "Password").some
          THEN {FieldLine("> Password: {}", "Password", entry.fields["Password"])}
          ELSE {})

\* view_entry, lines 306-316 and 324: the lines it prints.
view_entry(entry) ==
    (IF username(entry).some
     THEN {FieldLine("> Username: {}", "UserName", entry.fields["UserName"])}
     ELSE {})
    \cup (IF url(entry).some
          THEN {FieldLine("> Url: {}", "URL", entry.fields["URL"])}
          ELSE {})
    \cup (IF notes(entry).some
          THEN {Line("-- Notes ----------------"),
                FieldLine("{}", "Notes", entry.fields["Notes"]),
                Line("-------------------------")}
          ELSE {})
    \cup (IF password(entry).some THEN {Line("> Copied to clipboard!")} ELSE {})

\* view_entry, lines 318-323: what it copies to the clipboard.
view_clipboard(entry) ==
    IF password(entry).some THEN password(entry).val ELSE NoText

Entries(root) == {list_entries(root)[i] : i \in 1..Len(list_entries(root))}

\* The uuids of the entries of a tree.
Uuids(root) == {e.uuid : e \in Entries(root)}

\* main, lines 213-215: Quit.
Quit ==
    /\ pc = "menu"
    /\ Exit("ok")
    /\ stdout' = {}
    /\ clipboard' = NoText
    /\ entries' = <<>>
    /\ UNCHANGED used
    /\ UNCHANGED <<fs, ops>>

\* main, lines 216-219: Search.
Search(entry) ==
    /\ pc = "menu"
    /\ entries' = list_entries(db)
    /\ UNCHANGED used
    /\ \E i \in 1..Len(entries') : entry = entries'[i]
    /\ stdout' = view_entry(entry)
    /\ clipboard' = view_clipboard(entry)
    /\ UNCHANGED <<fs, pc, status, mem, ops>>

\* ------------------------------------------------------------- EditEntry
\* What a Text prompt with required!() may return: the initial value or
\* typed text, never empty.
TextInputs(current) == (TypedTexts \cup {current}) \ {""}

\* What the Editor may return: the predefined text, typed text or nothing.
EditorInputs(current) == TypedTexts \cup {current, ""}

unwrap_or(opt, default) == IF opt.some THEN opt.val ELSE default

\* A plausible slip: the field map is built anew around the title.
set_title_fresh(entry, value) ==
    [entry EXCEPT !.fields = [NoFields EXCEPT !["Title"] = Unprotected(value)]]

\* EditEntry::set_title
set_title(entry, value) == insert(entry, "Title", Unprotected(value))
\* EditEntry::set_username
set_username(entry, value) == insert(entry, "UserName", Unprotected(value))
\* EditEntry::set_notes
set_notes(entry, value) == insert(entry, "Notes", Protected(value))
\* EditEntry::set_manual_password
set_manual_password(entry, value) == insert(entry, "Password", Protected(value))
\* EditEntry::set_random_password
set_random_password(entry, value) == insert(entry, "Password", Protected(value))

\* new_entry, lines 330-340: a fresh entry with the four fields set.
new_entry(uuid, t, u, n, g) ==
    set_random_password(
        set_notes(set_username(set_title(MkEntry(uuid, NoFields), t), u), n), g)

\* The entries new_entry may return: a fresh uuid and what the prompts gave.
NewEntries ==
    {new_entry(uuid, t, u, n, g) :
        uuid \in NewUuids \ Uuids(db), t \in TextInputs(""), u \in TextInputs(""),
        n \in EditorInputs(""), g \in Generated}

\* A plausible slip: the entry is added to the tree before the confirmation
\* is asked for.
NewDeclined_added ==
    /\ pc = "menu"
    /\ \E entry \in NewEntries :
          /\ stdout' = {Line("> Password generated.")} \cup view_entry(entry)
          /\ clipboard' = view_clipboard(entry)
          /\ db' = add_child(db, entry)
    /\ entries' = <<>>
    /\ UNCHANGED <<fs, pc, status, db_path, pass, key, sel, ops, used>>

\* main, lines 220-231: New, declined at the confirmation.
NewDeclined ==
    /\ pc = "menu"
    /\ \E entry \in NewEntries :
          /\ stdout' = {Line("> Password generated.")} \cup view_entry(entry)
          /\ clipboard' = view_clipboard(entry)
    /\ entries' = <<>>
    /\ UNCHANGED used
    /\ UNCHANGED <<fs, pc, status, mem, ops>>

\* main, lines 220-231: New, confirmed: the entry is added and saved.
NewConfirmed ==
    /\ pc = "menu"
    /\ ops < MaxOps
    /\ \E entry \in NewEntries :
          /\ clipboard' = view_clipboard(entry)
          /\ \E out \in save_db(fs, add_child(db, entry), key, db_path) :
                /\ fs' = out.fs
                /\ IF out.res = "ok"
                   THEN /\ db' = add_child(db, entry)
                        /\ stdout' = {Line("> Password generated."),
                                      Line("> Saving..."), Line("> Saved.")}
                                     \cup view_entry(entry)
                        /\ UNCHANGED <<pc, status, db_path, pass, key, sel>>
                   ELSE /\ Exit(out.res)
                        /\ stdout' = {Line("> Password generated."),
                                      Line("> Saving...")}
                                     \cup view_entry(entry)
    /\ entries' = <<>>
    /\ UNCHANGED used
    /\ ops' = ops + 1

\* main, lines 234-239: Edit picks an entry, views it and looks it up by
\* uuid; expect() panics when the lookup finds nothing.
Edit(entry) ==
    /\ pc = "menu"
    /\ entries' = list_entries(db)
    /\ UNCHANGED used
    /\ \E i \in 1..Len(entries') : entry = entries'[i]
    /\ stdout' = view_entry(entry)
    /\ clipboard' = view_clipboard(entry)
    /\ LET found == get_entry_mut(db, entry.uuid)
       IN  IF found.some
           THEN /\ sel' = found.val
                /\ pc' = "edit"
                /\ UNCHANGED <<status, db_path, pass, key, db>>
           ELSE Exit("panic_expect")
    /\ UNCHANGED <<fs, ops>>

\* One arm of edit_entry's loop: the entry behind `sel` replaced.
EditWith(new) ==
    /\ pc = "edit"
    /\ ops < MaxOps
    /\ db' = SetAt(db, sel, new)
    /\ ops' = ops + 1
    /\ clipboard' = NoText
    /\ entries' = <<>>
    /\ UNCHANGED used
    /\ UNCHANGED <<fs, pc, status, db_path, pass, key, sel>>

\* edit_entry, lines 359-361.
EditTitle ==
    \E v \in TextInputs(unwrap_or(title(NodeAt(db, sel)), "")) :
        /\ EditWith(set_title(NodeAt(db, sel), v))
        /\ stdout' = {}

\* edit_entry, lines 362-364.
EditUserName ==
    \E v \in TextInputs(unwrap_or(username(NodeAt(db, sel)), "")) :
        /\ EditWith(set_username(NodeAt(db, sel), v))
        /\ stdout' = {}

\* edit_entry, lines 365-367.
EditNotes ==
    \E v \in EditorInputs(unwrap_or(notes(NodeAt(db, sel)), "")) :
        /\ EditWith(set_notes(NodeAt(db, sel), v))
        /\ stdout' = {}

\* edit_entry, lines 368-370.
EditRandomPassword ==
    \E g \in Generated :
        /\ EditWith(set_random_password(NodeAt(db, sel), g))
        /\ stdout' = {Line("> Password generated.")}

\* edit_entry, lines 371-373.
EditManualPassword ==
    \E v \in TextInputs(unwrap_or(password(NodeAt(db, sel)), "")) :
        /\ EditWith(set_manual_password(NodeAt(db, sel), v))
        /\ stdout' = {}

\* edit_entry, lines 374-376, and main, line 242: Done, then save_db.
EditDone ==
    /\ pc = "edit"
    /\ \E out \in save_db(fs, db, key, db_path) :
          /\ fs' = out.fs
          /\ IF out.res = "ok"
             THEN /\ pc' = "menu"
                  /\ sel' = <<>>
                  /\ UNCHANGED <<status, db_path, pass, key, db>>
             ELSE Exit(out.res)
    /\ stdout' = {}
    /\ clipboard' = NoText
    /\ entries' = <<>>
    /\ UNCHANGED used
    /\ UNCHANGED ops

\* ------------------------------------------------------------------- spec
\* Unlocking: launch on one of `paths`, quick unlock, passphrase prompt,
\* cache_pass, and leaving.
Unlocking(paths) ==
    \/ \E path \in paths : Launch(path)
    \/ TryLoadNoCache
    \/ \E typed \in Strs : try_load_pass(typed)
    \/ OpenCached
    \/ \E typed \in Strs : PromptPass(typed)
    \/ Interrupt
    \/ CachePass
    \/ Quit

\* The menu loop's actions that leave the tree as it is.
Viewing ==
    \/ \E entry \in Entries(db) : Search(entry)
    \/ NewDeclined
    \/ \E entry \in Entries(db) : Edit(entry)
    \/ EditDone

\* The menu loop's actions that change the tree.
Mutating ==
    \/ NewConfirmed
    \/ EditTitle
    \/ EditUserName
    \/ EditNotes
    \/ EditRandomPassword
    \/ EditManualPassword

\* One vault, every action of the program on it.
Init == InitWith({<<97, 97, 233, 97>>}, {<<233, 97, 233, 97>>})
Next == Unlocking({"/v1/db.kdbx"}) \/ Viewing \/ Mutating
Spec == Init /\ [][Next]_vars

\* Two vaults under every pair of passphrases, the tree left as it is.
InitUnlock == InitWith(VaultKeys1, VaultKeys2)
NextUnlock == Unlocking(DbPaths) \/ Viewing
SpecUnlock == InitUnlock /\ [][NextUnlock]_vars

\* last_n_chars on its own, as cache_pass calls it (line 163): `pass` is
\* the password, `key` receives the quick pass.
InitDerive ==
    /\ fs = [p \in Paths |-> Absent]
    /\ pc = "derive"
    /\ status = "none"
    /\ db_path = "/v1/db.kdbx"
    /\ pass \in StrUpTo(DeriveAlphabet, MaxPassLen)
    /\ key = <<>>
    /\ db = EmptyRoot
    /\ sel = <<>>
    /\ entries = <<>>
    /\ stdout = {}
    /\ clipboard = NoText
    /\ ops = 0
    /\ used = FALSE

Derive ==
    /\ pc = "derive"
    /\ LET r == last_n_chars(pass, QUICK_LEN)
       IN  IF r.some
           THEN /\ key' = r.val
                /\ pc' = "derived"
                /\ UNCHANGED status
           ELSE /\ pc' = "panicked"
                /\ status' = "panic_unwrap"
                /\ UNCHANGED key
    /\ UNCHANGED <<fs, db_path, pass, db, sel, entries, stdout, clipboard, ops,
                   used>>

SpecDerive == InitDerive /\ [][Derive]_vars

\* get_entry_mut on its own, over every tree of at most MaxDepth levels of
\* groups with at most two children each; entries may share a uuid, and
\* one uuid asked for is in no tree.
FindUuids == {1, 2}
QueryUuids == {1, 2, 3}

ChildSeqs(nodes) ==
    {<<>>} \cup {<<a>> : a \in nodes} \cup {<<a, b>> : a \in nodes, b \in nodes}

RECURSIVE Groups(_)
Groups(d) ==
    IF d = 0 THEN {}
    ELSE {MkGroup(c) :
            c \in ChildSeqs({MkEntry(u, NoFields) : u \in FindUuids}
                            \cup Groups(d - 1))}

InitFind ==
    /\ fs = [p \in Paths |-> Absent]
    /\ pc = "find"
    /\ status = "none"
    /\ db_path = "/v1/db.kdbx"
    /\ pass = <<>>
    /\ key = <<>>
    /\ db \in Groups(MaxDepth)
    /\ sel = <<>>
    /\ entries = <<>>
    /\ stdout = {}
    /\ clipboard = NoText
    /\ ops = 0
    /\ used = FALSE

\* get_entry_mut(&mut db, uuid): `sel` receives the reference.
Find(uuid) ==
    /\ pc = "find"
    /\ LET found == get_entry_mut(db, uuid)
       IN  IF found.some
           THEN sel' = found.val /\ pc' = "found"
           ELSE sel' = <<>> /\ pc' = "not_found"
    /\ UNCHANGED <<fs, status, db_path, pass, key, db, entries, stdout, clipboard,
                   ops, used>>

SpecFind == InitFind /\ [][\E uuid \in QueryUuids : Find(uuid)]_vars

\* pick_entry's listing on its own, over the same trees and the two vaults.
InitList ==
    /\ fs = [p \in Paths |-> Absent]
    /\ pc = "list"
    /\ status = "none"
    /\ db_path = "/v1/db.kdbx"
    /\ pass = <<>>
    /\ key = <<>>
    /\ db \in Groups(MaxDepth) \cup {Root1, Root2}
    /\ sel = <<>>
    /\ entries = <<>>
    /\ stdout = {}
    /\ clipboard = NoText
    /\ ops = 0
    /\ used = FALSE

\* pick_entry, lines 289-296: the entries collected from `&Database`.
List ==
    /\ pc = "list"
    /\ entries' = list_entries(db)
    /\ UNCHANGED used
    /\ pc' = "listed"
    /\ UNCHANGED <<fs, status, db_path, pass, key, db, sel, stdout, clipboard, ops,
                   used>>

SpecList == InitList /\ [][List]_vars

\* The Edit action's pick and lookup on their own: the menu of a session
\* on a vault that holds any of the trees above.
InitPick ==
    /\ db \in Groups(MaxDepth) \cup {Root1, Root2}
    /\ key = <<97, 97, 233, 97>>
    /\ fs = [p \in Paths |-> IF p = "/v1/db.kdbx" THEN Kdbx(key, db) ELSE Absent]
    /\ pc = "menu"
    /\ status = "none"
    /\ db_path = "/v1/db.kdbx"
    /\ pass = <<>>
    /\ sel = <<>>
    /\ entries = <<>>
    /\ stdout = {}
    /\ clipboard = NoText
    /\ ops = 0
    /\ used = FALSE

SpecPick == InitPick /\ [][\E entry \in Entries(db) : Edit(entry)]_vars

\* ----------------------------------------------------------------- claims
\* The last QUICK_LEN scalar values of a str that has as many.
LastChars(P) == SubSeq(P, Len(P) - QUICK_LEN + 1, Len(P))

\* The passphrase the cache file holds.
Cached == from_utf8(fs[PW_CACHE].blob)

\* C1: with the cache of a passphrase P stored, try_load_pass under any
\* quick pass other than the last three chars of P returns None and leaves
\* no cache file; with no cache file try_load_pass returns None without a
\* prompt, whatever would have been typed, and the file stays absent.
C1_DestructiveFailure ==
    [][/\ (pc = "try_load" /\ fs[PW_CACHE].kind = "cocoon")
            => \/ (pc' = "prompt_pass" /\ pass' = <<>> /\ fs'[PW_CACHE] = Absent)
               \/ ~\E typed \in Strs \ {LastChars(Cached)} : try_load_pass(typed)
       /\ (pc = "try_load" /\ fs[PW_CACHE] = Absent)
            => (pc' = "prompt_pass" /\ pass' = <<>> /\ fs'[PW_CACHE] = Absent)
      ]_vars

\* A wrong quick pass was typed: the launch is at the passphrase prompt and
\* the cache file is gone.
C1_Witness ==
    /\ pc = "prompt_pass"
    /\ Line("! Quick Pass was incorrect.") \in stdout
    /\ fs[PW_CACHE] = Absent

\* C2: when save_db fails in Database::save, the vault file is as it was
\* before save_db and the backup file holds what the vault file held.
C2_SaveIntegrity ==
    [][(pc # "off" /\ status' = "err_save")
        => /\ fs'[db_path] = fs[db_path]
           /\ fs'[with_file_name(db_path)] = fs[db_path]
      ]_vars

\* Serialization failed: the staging file is partial, the vault file is a
\* whole container and the backup equals it.
C2_Witness ==
    /\ status = "err_save"
    /\ fs[TEMP_PATH] = Partial
    /\ fs[db_path].kind = "kdbx"
    /\ fs[with_file_name(db_path)] = fs[db_path]

\* C3 (as claimed): in every reachable state every vault file is a complete
\* container, never a partially written one.
C3_TargetAlwaysComplete == \A p \in DbPaths : fs[p].kind = "kdbx"

\* C4: the menu is only ever entered with the vault file holding the
\* serialization of the tree in memory under the key in memory: every
\* change of the tree was saved, and a failed save did not return to it.
C4_IdleIsSaved ==
    [][pc' = "menu" => fs'[db_path] = Kdbx(key', db')]_vars

\* Back at the menu with a changed tree saved.
C4_Witness ==
    /\ pc = "menu"
    /\ db # Root1
    /\ fs[db_path] = Kdbx(key, db)
    /\ fs[with_file_name(db_path)] = Kdbx(key, Root1)

C6_RoundTrip ==
    [][/\ (pc = "cache_pass" /\ pc' = "menu")
            => (fs'[PW_CACHE].kind = "cocoon" /\ from_utf8(fs'[PW_CACHE].blob) = pass)
       /\ (/\ pc = "try_load"
           /\ fs[PW_CACHE].kind = "cocoon"
           /\ Len(Cached) >= QUICK_LEN
           /\ try_load_pass(LastChars(Cached)))
            => (pc' = "open_cached" /\ pass' = Cached /\ fs' = fs)
      ]_vars

\* A passphrase longer than its quick pass, with a 2-byte char, came back
\* from the cache.
C6_Witness ==
    /\ pc = "open_cached"
    /\ Len(pass) > QUICK_LEN
    /\ Len(as_bytes(pass)) > Len(pass)
    /\ fs[PW_CACHE].blob = as_bytes(pass)

\* C7: last_n_chars(P, 3) is the last 3 scalar values of P, whatever their
\* width in bytes, and panics exactly when P has fewer than 3.
C7_DeriveCode ==
    /\ pc = "derived" => (Len(pass) >= QUICK_LEN /\ key = LastChars(pass))
    /\ pc = "panicked" => Len(pass) < QUICK_LEN

\* A quick pass of three chars and more than three bytes, cut from a longer
\* password.
C7_Witness ==
    /\ pc = "derived"
    /\ Len(pass) > QUICK_LEN
    /\ Len(key) = QUICK_LEN
    /\ Len(as_bytes(key)) > QUICK_LEN

\* C8 (as claimed; a failed write of the cache file may still end the
\* process): a passphrase the vault accepts leads to cache_pass and then to
\* the menu, a passphrase it rejects leads back to the prompt with the
\* error printed and no file written, and the menu is only entered under a
\* key that opens the vault.
C8_FullPassphraseFlow ==
    [][/\ pc = "prompt_pass"
            => \A typed \in Strs :
                  PromptPass(typed) =>
                      IF DatabaseOpen(fs[db_path], typed).some
                      THEN pc' = "cache_pass" /\ key' = typed
                      ELSE /\ pc' = "prompt_pass"
                           /\ Line("! Failed to open database. Wrong password?")
                                 \in stdout'
                           /\ fs' = fs
       /\ pc = "cache_pass"
            => (pc' = "menu" \/ status' \in {"err_cache_create", "panic_dump"})
       /\ (pc \in {"cache_pass", "open_cached"} /\ pc' = "menu")
            => DatabaseOpen(fs[db_path], key').some
      ]_vars

\* C9: in a launch the quick pass is asked for at most once: no step of a
\* running process leads to try_load_pass, and a quick pass that does not
\* open the cache removes the file and goes on to the passphrase prompt
\* with no error raised.
C9_OneAttempt ==
    [][/\ pc # "off" => pc' # "try_load"
       /\ (pc = "try_load" /\ fs[PW_CACHE] # Absent)
            => \/ (pc' = "prompt_pass" /\ status' = "none" /\ fs'[PW_CACHE] = Absent)
               \/ ~\E typed \in Strs :
                      /\ ~CocoonParse(fs[PW_CACHE], as_bytes(typed)).some
                      /\ try_load_pass(typed)
      ]_vars

\* After a wrong quick pass the same launch is running, at the passphrase
\* prompt.
C9_Witness ==
    /\ pc = "prompt_pass"
    /\ status = "none"
    /\ stdout = {Line("! Quick Pass was incorrect.")}

\* C10: a passphrase from the cache that does not open the vault ends the
\* process by the panic of expect(): no prompt, no retry, no menu; the menu
\* is entered from the cache only under a passphrase that opens the vault.
C10_CachedOpenFailureIsFatal ==
    [][/\ (pc = "open_cached" /\ ~DatabaseOpen(fs[db_path], pass).some)
            => (pc' = "off" /\ status' = "panic_expect")
       /\ (pc = "open_cached" /\ pc' # "off")
            => (pc' = "menu" /\ key' = pass /\ DatabaseOpen(fs[db_path], pass).some)
      ]_vars

\* The process ended in expect() on a vault file that is a whole container
\* under another passphrase.
C10_Witness ==
    /\ pc = "off"
    /\ status = "panic_expect"
    /\ fs[db_path].kind = "kdbx"
    /\ fs[PW_CACHE].kind = "cocoon"
    /\ Cached # fs[db_path].key

\* C11 (as claimed): whenever the cache file exists it is the blob of some
\* passphrase P locked by the last three chars of P, so some quick pass
\* opens it.
C11_CacheAlwaysOpens ==
    fs[PW_CACHE] # Absent
        => /\ fs[PW_CACHE].kind = "cocoon"
           /\ Cached # Invalid
           /\ last_n_chars(Cached, QUICK_LEN).some
           /\ fs[PW_CACHE].key = as_bytes(last_n_chars(Cached, QUICK_LEN).val)

RECURSIVE DfsPaths(_)
\* The paths of the entries of a tree in depth-first insertion order: a
\* group's entries come before its later siblings.
DfsPaths(group) ==
    LET RECURSIVE from(_)
        from(i) ==
            IF i > Len(group.children) THEN <<>>
            ELSE (IF group.children[i].kind = "Group"
                  THEN LET sub == DfsPaths(group.children[i])
                       IN  [j \in 1..Len(sub) |-> <<i>> \o sub[j]]
                  ELSE << <<i>> >>) \o from(i + 1)
    IN  from(1)

\* C12: get_entry_mut(root, uuid) returns the first entry, in depth-first
\* insertion order, whose uuid is the one asked for (so with distinct
\* uuids the one entry that has it), and None when no entry has it.
C12_FindDepthFirst ==
    [][pc = "find"
        => \A uuid \in QueryUuids :
              Find(uuid)
              => LET paths == DfsPaths(db)
                     hits == {i \in 1..Len(paths) : NodeAt(db, paths[i]).uuid = uuid}
                 IN  IF hits = {} THEN pc' = "not_found"
                     ELSE /\ pc' = "found"
                          /\ sel' = paths[Min(hits)]
                          /\ NodeAt(db, sel').kind = "Entry"
                          /\ NodeAt(db, sel').uuid = uuid
      ]_vars

\* The entry found sits inside a group although a later sibling of that
\* group is an entry of the same uuid.
C12_Witness ==
    /\ pc = "found"
    /\ Len(sel) >= 2
    /\ \E i \in 1..Len(db.children) :
          /\ i > sel[1]
          /\ db.children[i].kind = "Entry"
          /\ db.children[i].uuid = NodeAt(db, sel).uuid

\* The entries behind a sequence of paths.
EntriesAt(root, paths) == [i \in 1..Len(paths) |-> NodeAt(root, paths[i])]

\* The depth of the deepest entry of a tree.
Depth(root) ==
    LET paths == DfsPaths(root)
    IN  IF paths = <<>> THEN 0
        ELSE CHOOSE d \in {Len(paths[i]) : i \in 1..Len(paths)} :
                \A i \in 1..Len(paths) : Len(paths[i]) <= d

RECURSIVE LevelPaths(_, _)
\* The paths of the entries level by level from level d down, each level in
\* insertion order.
LevelPaths(root, d) ==
    IF d > Depth(root) THEN <<>>
    ELSE SelectSeq(DfsPaths(root), LAMBDA path : Len(path) = d)
         \o LevelPaths(root, d + 1)

\* C13 (as claimed): the listing is every entry once, in depth-first
\* insertion order, no group, and the tree is left as it is.
C13_ListDepthFirst ==
    [][pc = "list"
        => /\ entries' = EntriesAt(db, DfsPaths(db))
           /\ db' = db
      ]_vars

\* C13 (amended): the listing is every entry once and no group, level by
\* level (the entries of a group before those of its subgroups), each level
\* in insertion order, and the tree is left as it is.
C13_ListBreadthFirst ==
    [][pc = "list"
        => /\ entries' = EntriesAt(db, LevelPaths(db, 1))
           /\ Len(entries') = Len(DfsPaths(db))
           /\ \A i \in 1..Len(entries') : entries'[i].kind = "Entry"
           /\ db' = db
      ]_vars

\* G1{e1, G2{e2}}, e3 was listed: e3, e1, e2.
C13_Witness ==
    /\ pc = "listed"
    /\ db = Root1
    /\ entries = <<E3, E1, E2>>

\* C14 (as claimed): a cache record unlocks one launch: a launch unlocks
\* through the cache only by a record that has unlocked no launch since it
\* was stored.
C14_OneLaunchOnly ==
    [][(pc = "open_cached" /\ pc' = "menu") => ~used]_vars

\* C14 (amended): a launch that unlocks through the cache leaves the record
\* as it is, and a record that has unlocked a launch stays on disk unchanged
\* until a wrong quick pass removes it.
C14_CacheOutlivesUnlock ==
    [][/\ (pc = "open_cached" /\ pc' = "menu")
            => (fs'[PW_CACHE] = fs[PW_CACHE] /\ fs[PW_CACHE].kind = "cocoon")
       /\ (used /\ fs'[PW_CACHE] # fs[PW_CACHE])
            => /\ pc = "try_load"
               /\ pc' = "prompt_pass"
               /\ fs'[PW_CACHE] = Absent
               /\ Line("! Quick Pass was incorrect.") \in stdout'
      ]_vars

\* A further launch has recovered the passphrase from a record that had
\* already unlocked a launch.
C14_Witness ==
    /\ used
    /\ pc = "open_cached"
    /\ pass = Cached
    /\ DatabaseOpen(fs[db_path], pass).some

\* C15: save_db takes the backup first, then stages, then publishes: when
\* the backup copy fails the save is given up with the staging file and
\* the vault file as they were; when creating the staging file fails the
\* backup holds what the vault file holds and the vault file is as it was;
\* when publishing fails the backup holds what the vault file held and the
\* staging file is a whole container.
C15_BackupFirst ==
    [][pc # "off"
        => /\ status' = "err_backup"
                => /\ pc' = "off"
                   /\ fs'[TEMP_PATH] = fs[TEMP_PATH]
                   /\ fs'[db_path] = fs[db_path]
           /\ status' = "err_create"
                => /\ fs'[with_file_name(db_path)] = fs[db_path]
                   /\ fs'[TEMP_PATH] = fs[TEMP_PATH]
                   /\ fs'[db_path] = fs[db_path]
           /\ status' = "err_publish"
                => /\ fs'[with_file_name(db_path)] = fs[db_path]
                   /\ fs'[TEMP_PATH].kind = "kdbx"
      ]_vars

\* The first save of a launch failed in the backup copy: the backup is
\* partly written, nothing was staged and the vault file is whole.
C15_Witness ==
    /\ status = "err_backup"
    /\ fs[with_file_name(db_path)] = Partial
    /\ fs[TEMP_PATH] = Absent
    /\ fs[db_path].kind = "kdbx"

RECURSIVE Skeleton(_)
\* A tree without the fields of its entries: the groups, the places of the
\* entries and their uuids.
Skeleton(node) ==
    [uuid |-> node.uuid,
     children |-> [i \in 1..Len(node.children) |-> Skeleton(node.children[i])]]

\* The names of the fields of the selected entry that a step changes.
Changed == {f \in FieldNames : NodeAt(db', sel).fields[f] # NodeAt(db, sel).fields[f]}

\* The uuids of the entries of a tree are pairwise distinct.
Unique(root) == Cardinality(Uuids(root)) = Len(list_entries(root))

\* C16: a step of the edit loop leaves the groups, the places and the uuids
\* of all entries and every entry but the selected one as they were, and
\* changes of the selected entry at most the field the step is named for;
\* no step of New or Edit makes two entries share a uuid.
C16_EditFrame ==
    [][/\ (pc = "edit" /\ pc' = "edit")
            => /\ Skeleton(db') = Skeleton(db)
               /\ \A i \in 1..Len(DfsPaths(db)) :
                     DfsPaths(db)[i] # sel
                     => NodeAt(db', DfsPaths(db)[i]) = NodeAt(db, DfsPaths(db)[i])
               /\ EditTitle => Changed \subseteq {"Title"}
               /\ EditUserName => Changed \subseteq {"UserName"}
               /\ EditNotes => Changed \subseteq {"Notes"}
               /\ (EditRandomPassword \/ EditManualPassword)
                     => Changed \subseteq {"Password"}
       /\ Unique(db) => Unique(db')
      ]_vars

\* The title of e3 was edited: its field this program does not know and
\* its uuid are as they were.
C16_Witness ==
    /\ pc = "edit"
    /\ NodeAt(db, sel).uuid = 3
    /\ NodeAt(db, sel).fields["Title"] = Unprotected("n")
    /\ NodeAt(db, sel).fields["Extra"] = Unprotected("x3")
    /\ NodeAt(db, sel).fields["UserName"] = Unprotected("u3")

\* C17: Search, and New declined at the confirmation, leave the tree in
\* memory and every file (the vault file, the backup, the staging file and
\* the cache) as they were, and the session at the menu.
C17_ViewOnly ==
    [][((\E entry \in Entries(db) : Search(entry)) \/ NewDeclined)
        => /\ db' = db
           /\ fs'[db_path] = fs[db_path]
           /\ fs'[with_file_name(db_path)] = fs[with_file_name(db_path)]
           /\ fs'[PW_CACHE] = fs[PW_CACHE]
           /\ fs'[TEMP_PATH] = fs[TEMP_PATH]
           /\ pc' = "menu"
           /\ key' = key
      ]_vars

\* A new entry was previewed and declined: its password is on the
\* clipboard, nothing was saved and the tree is the vault's.
C17_Witness ==
    /\ pc = "menu"
    /\ Line("> Password generated.") \in stdout
    /\ Line("> Saving...") \notin stdout
    /\ clipboard = "g"
    /\ fs[TEMP_PATH] = Absent
    /\ fs[db_path] = Kdbx(key, db)

\* C18: with no cache file, the launch goes from try_load_pass straight to
\* the passphrase prompt: nothing is printed, no error ends the process, no
\* file is created or changed and no passphrase is returned.
C18_NoCacheSilent ==
    [][(pc = "try_load" /\ fs[PW_CACHE] = Absent)
        => /\ pc' = "prompt_pass"
           /\ status' = "none"
           /\ stdout' = {}
           /\ fs' = fs
           /\ pass' = <<>>
           /\ key' = <<>>
      ]_vars

\* A launch with no cache file is at the passphrase prompt with nothing
\* printed.
C18_Witness ==
    /\ pc = "prompt_pass"
    /\ status = "none"
    /\ stdout = {}
    /\ fs[PW_CACHE] = Absent

\* C19: in Edit the lookup of the picked entry's uuid always finds an entry
\* of that uuid (expect() does not panic), in any tree and at any depth,
\* and when the uuids of the tree are distinct the entry found, which the
\* edit loop then writes through, is the entry picked.
C19_PickedIsEdited ==
    [][pc = "menu"
        => \A entry \in Entries(db) :
              Edit(entry)
              => /\ pc' = "edit"
                 /\ status' = "none"
                 /\ NodeAt(db, sel').kind = "Entry"
                 /\ NodeAt(db, sel').uuid = entry.uuid
                 /\ Unique(db) => NodeAt(db, sel') = entry
      ]_vars

\* e2, inside G2 inside G1, was picked from the listing and found.
C19_Witness ==
    /\ pc = "edit"
    /\ db = Root1
    /\ entries = <<E3, E1, E2>>
    /\ sel = <<1, 2, 1>>
    /\ NodeAt(db, sel) = E2

\* C20: when the passphrase recovered from the cache does not open the
\* vault, the process ends with every file as it was, the cache still
\* holding that passphrase under that quick pass (so the next launch on
\* the vault under the same quick pass is in the same state); the
\* passphrase prompt is reached from try_load_pass with a cache file only
\* by a wrong quick pass, which removes the file.
C20_StuckUntilWrongCode ==
    [][/\ (pc = "open_cached" /\ ~DatabaseOpen(fs[db_path], pass).some)
            => /\ status' = "panic_expect"
               /\ fs' = fs
               /\ CocoonParse(fs'[PW_CACHE], as_bytes(LastChars(pass)))
                    = Some(as_bytes(pass))
       /\ (pc = "try_load" /\ fs[PW_CACHE] # Absent /\ pc' = "prompt_pass")
            => /\ fs'[PW_CACHE] = Absent
               /\ Line("! Quick Pass was incorrect.") \in stdout'
       /\ (pc' = "prompt_pass" /\ pc # "prompt_pass") => pc = "try_load"
      ]_vars

\* A launch on a vault whose file is partly written ended in the panic
\* under the cached passphrase, and the cache is still there.
C20_Witness ==
    /\ pc = "off"
    /\ status = "panic_expect"
    /\ fs[db_path] = Partial
    /\ fs[PW_CACHE].kind = "cocoon"
    /\ Len(Cached) >= QUICK_LEN

====
